---- MODULE Spec2Model ----
(***************************************************************************)
(* Model of popsift's descriptor dispatch, src/popsift/s_desc_igrid.h:     *)
(* start_ext_desc_igrid(octave, oct_obj) reads the per-octave work count   *)
(* hct.ori_ct[octave] into the unsigned 32-bit field grid.x, returns false *)
(* when it is zero, and otherwise launches the kernel ext_desc_igrid on    *)
(* the stream of oct_obj, runs POP_SYNC_CHK and returns true.              *)
(*                                                                         *)
(* The kernel body, the Octave class, the table hct and the macro          *)
(* POP_SYNC_CHK are declared in other files; they are modelled from the    *)
(* specification's description of them.                                    *)
(***************************************************************************)
EXTENDS Integers, Sequences, FiniteSets, TLC

(* ------------------------------ bounds --------------------------------- *)
NumOctaves == 2
MaxKp == 3
MaxOri == 2
MaxPairs == 4
MaxCalls == 2

(* ------------------------- program constants --------------------------- *)
IGRID_NUMLINES == 1
BLOCK_X == 16
BLOCK_Y == 16
\* A dim3 field is an unsigned 32-bit integer.  It is kept as two 16-bit
\* limbs [hi, lo] (value hi * LIMB + lo) so that 2^32 wrap-around is exact.
LIMB == 65536

Octaves == 0 .. (NumOctaves - 1)
GroupIds == 0 .. (MaxPairs - 1)
NoDesc == <<>>

VARIABLES
    extrema,    \* per octave: the keypoints' orientation counts, in keypoint order
    ori_ct,     \* hct.ori_ct: per-octave count of (keypoint, orientation) pairs
    image,      \* per octave object: the content behind getDataTexLinear()
    stream,     \* per octave object: FIFO of launches queued on getStream()
    desc,       \* per octave, per group index: the descriptor written, or NoDesc
    execs,      \* per octave, per group index: how often the group was executed
    lastError,  \* the backend's sticky error flag
    pc,         \* position of the host thread
    log,        \* one record per call of start_ext_desc_igrid, in call order
    nsync       \* number of POP_SYNC_CHK checkpoints entered

vars == <<extrema, ori_ct, image, stream, desc, execs, lastError, pc, log, nsync>>

(* --------------------------- pure helpers ------------------------------ *)

\* Conversion of a C int to the unsigned 32-bit dim3 field (value mod 2^32).
GridXOffByOne(count) ==
    [hi |-> ((count + 1) \div LIMB) % LIMB, lo |-> (count + 1) % LIMB]

GridXClampNegative(count) ==
    IF count < 0 THEN [hi |-> 0, lo |-> 0]
    ELSE [hi |-> (count \div LIMB) % LIMB, lo |-> count % LIMB]

GridX(count) ==
    [hi |-> (count \div LIMB) % LIMB, lo |-> count % LIMB]

\* if( grid.x == 0 ) return false;
NoWorkNever(gx) == FALSE

NoWork(gx) == gx.hi = 0 /\ gx.lo = 0

\* block.x = 16; block.y = 16; block.z = IGRID_NUMLINES;
BlockShape == [x |-> BLOCK_X, y |-> BLOCK_Y, z |-> IGRID_NUMLINES]

\* grid.x = hct.ori_ct[octave]; grid.y = 1; grid.z = 1;
GridShape(count) == [x |-> GridX(count), y |-> 1, z |-> 1]

\* The launch's stream argument: oct_obj.getStream().
LaunchStreamByIndex(octave, obj) == octave

LaunchStream(octave, obj) == obj

\* The launch's texture argument: oct_obj.getDataTexLinear().tex.
LaunchTexFirstOctave(octave, obj) == 0

LaunchTex(octave, obj) == obj

\* The launch's octave argument: the index used to look up the count.
KernelOctaveArg(octave, obj) == octave

\* The statement that follows the launch: POP_SYNC_CHK, then return true.
AfterLaunchNoCheck == "ret"

AfterLaunch == "sync_chk"

\* start_ext_desc_igrid never writes hct: the table after a call.
HctConsumed(octave) == [ori_ct EXCEPT ![octave] = 0]

HctAfterStart(octave) == ori_ct

\* g < gx for a group index g below LIMB.
GroupInGrid(g, gx) == gx.hi > 0 \/ g < gx.lo

\* The flattened (keypoint, orientation) enumeration of one octave:
\* keypoint order, then orientation order within the keypoint.
RECURSIVE OriPairs(_, _)
OriPairs(k, n) == IF n = 0 THEN <<>> ELSE Append(OriPairs(k, n - 1), <<k, n>>)

RECURSIVE Pairs(_, _)
Pairs(kps, k) ==
    IF k > Len(kps) THEN <<>> ELSE OriPairs(k, kps[k]) \o Pairs(kps, k + 1)

RECURSIVE SumOri(_)
SumOri(kps) == IF kps = <<>> THEN 0 ELSE Head(kps) + SumOri(Tail(kps))

\* One group of the kernel: a pure function of the sampled image and the
\* group's (keypoint, orientation) pair.
ext_desc_igrid(octave, tex, g) ==
    LET ps == Pairs(extrema[octave], 1) IN
    IF g < Len(ps) THEN <<image[tex], ps[g + 1][1], ps[g + 1][2]>>
    ELSE <<image[tex], 0, 0>>

\* The extremum tables handed to this stage: up to MaxKp keypoints, each with
\* one or more assigned orientations, and at most MaxPairs pairs in the image.
KpSeqs ==
    {kps \in UNION {[1 .. n -> 1 .. MaxOri] : n \in 0 .. MaxKp} :
        SumOri(kps) <= MaxPairs}

RECURSIVE TotalPairs(_, _)
TotalPairs(tables, o) ==
    IF o = NumOctaves THEN 0 ELSE SumOri(tables[o]) + TotalPairs(tables, o + 1)

\* Table entries used to exercise the int -> unsigned conversion: the ends of
\* the int range, the values around zero and around one limb.
CountSamples ==
    {-2147483647 - 1, -65536, -2, -1, 0, 1, 2, 65536, 2147483647}

(* ------------------------------ Init ----------------------------------- *)

InitCommon ==
    /\ image = [o \in Octaves |-> 100 + o]
    /\ stream = [o \in Octaves |-> <<>>]
    /\ desc = [o \in Octaves |-> [g \in GroupIds |-> NoDesc]]
    /\ execs = [o \in Octaves |-> [g \in GroupIds |-> 0]]
    /\ lastError = FALSE
    /\ pc = "idle"
    /\ log = <<>>
    /\ nsync = 0

Init ==
    /\ extrema \in [Octaves -> KpSeqs]
    /\ TotalPairs(extrema, 0) <= MaxPairs
    /\ ori_ct = [o \in Octaves |-> SumOri(extrema[o])]
    /\ InitCommon

(* ----------------------------- actions --------------------------------- *)

\* start_ext_desc_igrid(octave, oct_obj), up to and including the launch.
Start(octave, obj) ==
    /\ pc = "idle"
    /\ LET grid == GridShape(ori_ct[octave])
           block == BlockShape
       IN IF NoWork(grid.x)
          THEN /\ log' = Append(log, [octave |-> octave, obj |-> obj,
                                     grid |-> grid, block |-> block,
                                     launched |-> FALSE, result |-> "false",
                                     faulted |-> FALSE])
               /\ pc' = "idle"
               /\ UNCHANGED stream
          ELSE /\ stream' = [stream EXCEPT ![LaunchStream(octave, obj)] =
                                Append(@, [octave |-> KernelOctaveArg(octave, obj),
                                           tex |-> LaunchTex(octave, obj),
                                           grid |-> grid, block |-> block,
                                           done |-> {},
                                           call |-> Len(log) + 1])]
               /\ log' = Append(log, [octave |-> octave, obj |-> obj,
                                     grid |-> grid, block |-> block,
                                     launched |-> TRUE, result |-> "pending",
                                     faulted |-> FALSE])
               /\ pc' = AfterLaunch
    /\ ori_ct' = HctAfterStart(octave)
    /\ UNCHANGED <<extrema, image, desc, execs, lastError, nsync>>

\* The backend executes one group of the kernel at the head of stream s.
ExecGroup(s, g) ==
    /\ stream[s] # <<>>
    /\ LET k == Head(stream[s]) IN
       /\ GroupInGrid(g, k.grid.x)
       /\ g \notin k.done
       /\ desc' = [desc EXCEPT ![k.octave][g] = ext_desc_igrid(k.octave, k.tex, g)]
       /\ execs' = [execs EXCEPT ![k.octave][g] = @ + 1]
       /\ stream' = [stream EXCEPT ![s] =
                        IF k.grid.x.hi = 0 /\ Cardinality(k.done) + 1 = k.grid.x.lo
                        THEN Tail(@)
                        ELSE <<[k EXCEPT !.done = @ \cup {g}]>> \o Tail(@)]
    /\ UNCHANGED <<extrema, ori_ct, image, lastError, pc, log, nsync>>

\* The backend reports a fault for the kernel at the head of stream s.
Fault(s) ==
    /\ stream[s] # <<>>
    /\ LET k == Head(stream[s]) IN
       log' = [log EXCEPT ![k.call].faulted = TRUE]
    /\ stream' = [stream EXCEPT ![s] = Tail(@)]
    /\ lastError' = TRUE
    /\ UNCHANGED <<extrema, ori_ct, image, desc, execs, pc, nsync>>

\* POP_SYNC_CHK: wait for the device, then stop the process on an error.
SyncChk ==
    /\ pc = "sync_chk"
    /\ \A s \in Octaves : stream[s] = <<>>
    /\ nsync' = nsync + 1
    /\ IF lastError
       THEN /\ pc' = "aborted"
            /\ log' = [log EXCEPT ![Len(log)].result = "aborted"]
       ELSE /\ pc' = "ret"
            /\ UNCHANGED log
    /\ UNCHANGED <<extrema, ori_ct, image, stream, desc, execs, lastError>>

\* return true;
ReturnTrue ==
    /\ pc = "ret"
    /\ log' = [log EXCEPT ![Len(log)].result = "true"]
    /\ pc' = "idle"
    /\ UNCHANGED <<extrema, ori_ct, image, stream, desc, execs, lastError, nsync>>

Visited(o) == \E i \in 1 .. Len(log) : log[i].octave = o

\* The pipeline's extraction pass: every octave once, with its own object.
PassStart(o) == ~Visited(o) /\ Start(o, o)

\* An arbitrary caller: any index with any octave object, repeats allowed.
AnyStart(o, obj) == Len(log) < MaxCalls /\ Start(o, obj)

Backend == \E s \in Octaves : Fault(s) \/ \E g \in GroupIds : ExecGroup(s, g)

Next ==
    \/ \E o \in Octaves : PassStart(o)
    \/ Backend
    \/ SyncChk
    \/ ReturnTrue

Spec == Init /\ [][Next]_vars

NextAny ==
    \/ \E o \in Octaves, obj \in Octaves : AnyStart(o, obj)
    \/ Backend
    \/ SyncChk
    \/ ReturnTrue

SpecAny == Init /\ [][NextAny]_vars

\* The dispatch decision alone, on arbitrary table entries.
InitConv ==
    /\ extrema = [o \in Octaves |-> <<>>]
    /\ ori_ct \in [Octaves -> CountSamples]
    /\ InitCommon

NextConv == \E o \in Octaves, obj \in Octaves : AnyStart(o, obj)

SpecConv == InitConv /\ [][NextConv]_vars

(* ------------------------- claim vocabulary ---------------------------- *)

IsStartStep == Len(log') = Len(log) + 1
NewCall == log'[Len(log')]
Calls == 1 .. Len(log)
PassDone == pc = "idle" /\ \A o \in Octaves : Visited(o)
Queued == {s \in Octaves : stream[s] # <<>>}
U32(n) == [hi |-> 0, lo |-> n]

(* C1: a call for an octave whose count hct.ori_ct[octave] is 0 returns    *)
(* false without launching: no stream changes, no checkpoint is entered,   *)
(* and no descriptor is ever produced for that octave.                     *)
C1_Step ==
    (IsStartStep /\ ori_ct[NewCall.octave] = 0) =>
        /\ NewCall.result = "false"
        /\ ~NewCall.launched
        /\ pc' = "idle"
        /\ UNCHANGED <<stream, nsync, lastError, desc, execs>>
C1_State ==
    \A o \in Octaves : ori_ct[o] = 0 =>
        /\ \A g \in GroupIds : desc[o][g] = NoDesc /\ execs[o][g] = 0
        /\ \A i \in Calls : log[i].octave = o =>
               log[i].result = "false" /\ ~log[i].launched
C1_NoWorkNoLaunch == []C1_State /\ [][C1_Step]_vars
C1_Witness ==
    \E i \in Calls : ori_ct[log[i].octave] = 0 /\ log[i].result = "false"

(* C2: a call for an octave whose count is non-zero enqueues exactly one   *)
(* launch, with grid = (count, 1, 1), and returns true only after it.      *)
C2_Step ==
    (IsStartStep /\ ori_ct[NewCall.octave] # 0) =>
        /\ NewCall.launched
        /\ \E s \in Octaves :
              /\ Len(stream'[s]) = Len(stream[s]) + 1
              /\ stream'[s][Len(stream'[s])].grid =
                     [x |-> U32(ori_ct[NewCall.octave]), y |-> 1, z |-> 1]
              /\ \A t \in Octaves \ {s} : stream'[t] = stream[t]
C2_State ==
    \A i \in Calls :
        /\ ori_ct[log[i].octave] # 0 =>
               /\ log[i].launched
               /\ log[i].result \in {"pending", "true", "aborted"}
               /\ log[i].grid = [x |-> U32(ori_ct[log[i].octave]), y |-> 1, z |-> 1]
        /\ log[i].result = "true" => log[i].launched /\ ori_ct[log[i].octave] # 0
C2_OneLaunchOfCountGroups == []C2_State /\ [][C2_Step]_vars
C2_Witness ==
    \E i \in Calls : log[i].result = "true" /\ ori_ct[log[i].octave] >= 2

(* C3: work conservation over an extraction pass: no group is ever         *)
(* executed twice or beyond the octave's count, and when the pass is done  *)
(* every octave has exactly count descriptors, the g-th one being that of  *)
(* the g-th (keypoint, orientation) pair in keypoint-then-orientation      *)
(* order.                                                                  *)
C3_WorkConservation ==
    /\ \A o \in Octaves, g \in GroupIds :
           /\ execs[o][g] <= 1
           /\ g >= ori_ct[o] => execs[o][g] = 0 /\ desc[o][g] = NoDesc
    /\ PassDone =>
           \A o \in Octaves :
               /\ Cardinality({g \in GroupIds : desc[o][g] # NoDesc}) = ori_ct[o]
               /\ Len(Pairs(extrema[o], 1)) = ori_ct[o]
               /\ \A g \in GroupIds : g < ori_ct[o] =>
                      /\ execs[o][g] = 1
                      /\ desc[o][g] # NoDesc
                      /\ <<desc[o][g][2], desc[o][g][3]>> = Pairs(extrema[o], 1)[g + 1]
C3_Witness ==
    /\ PassDone
    /\ extrema[0] = <<2, 1, 1>>
    /\ ori_ct[0] = 4
    /\ <<desc[0][0][2], desc[0][0][3]>> = <<1, 1>>
    /\ <<desc[0][1][2], desc[0][1][3]>> = <<1, 2>>
    /\ <<desc[0][2][2], desc[0][2][3]>> = <<2, 1>>
    /\ <<desc[0][3][2], desc[0][3][3]>> = <<3, 1>>
    /\ ori_ct[1] = 0
    /\ \A g \in GroupIds : desc[1][g] = NoDesc

(* C4: a backend fault is fatal: the call whose launch faulted never       *)
(* returns true, the checkpoint stops the process, and after the stop      *)
(* nothing is launched, called or retried.                                 *)
C4_State ==
    /\ \A i \in Calls :
           /\ log[i].result = "true" => ~log[i].faulted
           /\ log[i].faulted =>
                  i = Len(log) /\ log[i].result \in {"pending", "aborted"}
    /\ lastError => pc \in {"sync_chk", "aborted"}
    /\ pc = "aborted" => lastError /\ Queued = {}
C4_Step ==
    /\ pc = "aborted" => UNCHANGED vars
    /\ (lastError /\ pc # "aborted") =>
           /\ pc' = "aborted"
           /\ log'[Len(log')].result = "aborted"
           /\ UNCHANGED <<stream, desc, execs>>
C4_FaultIsFatal == []C4_State /\ [][C4_Step]_vars
C4_Witness ==
    /\ pc = "aborted"
    /\ log[Len(log)].faulted
    /\ \E o \in Octaves : ~Visited(o) /\ ori_ct[o] > 0

(* C5: the call returns without waiting for the kernel: whenever the call  *)
(* has enqueued its launch, its return is possible at once, whether or not *)
(* the kernel has completed.                                               *)
C5_ReturnsWithoutWaiting == pc = "sync_chk" => ENABLED SyncChk

(* C6: a call changes only the stream of the octave object passed in; the  *)
(* launch it enqueues there samples that object's texture and carries the  *)
(* octave index whose count sized the grid.                                *)
C6_Step ==
    IsStartStep =>
        /\ \A s \in Octaves \ {NewCall.obj} : stream'[s] = stream[s]
        /\ ~NewCall.launched => stream' = stream
        /\ NewCall.launched =>
              /\ Len(stream'[NewCall.obj]) = Len(stream[NewCall.obj]) + 1
              /\ LET k == stream'[NewCall.obj][Len(stream'[NewCall.obj])] IN
                    /\ k.tex = NewCall.obj
                    /\ k.octave = NewCall.octave
                    /\ k.grid.x = U32(ori_ct[NewCall.octave])
C6_StreamTargeting == [][C6_Step]_vars
C6_Witness ==
    \E i \in Calls :
        /\ log[i].octave # log[i].obj
        /\ log[i].result = "pending"
        /\ Queued = {log[i].obj}

(* C7: whatever the order of submission and of execution, a completed      *)
(* pass leaves the same descriptors: for every octave, slot g holds the    *)
(* kernel's value for that octave's image and its g-th pair.               *)
ExpectedDesc ==
    [o \in Octaves |-> [g \in GroupIds |->
        LET ps == Pairs(extrema[o], 1) IN
        IF g < Len(ps) THEN <<image[o], ps[g + 1][1], ps[g + 1][2]>> ELSE NoDesc]]
C8_BlockShapeAsDocumented ==
    \A i \in Calls : log[i].launched =>
        /\ log[i].block \in {[x |-> 16, y |-> 4, z |-> 4], [x |-> 32, y |-> 4, z |-> 4]}
        /\ log[i].grid.x = U32(ori_ct[log[i].octave])

(* C9: the inputs are read-only: no step changes the count table, the      *)
(* images or the extremum tables, a call itself touches only a stream, and *)
(* two calls for the same octave take the same decision on the same count. *)
C9_Step ==
    /\ UNCHANGED <<ori_ct, image, extrema>>
    /\ IsStartStep => UNCHANGED <<desc, execs, lastError, nsync>>
C9_State ==
    \A i \in Calls, j \in Calls :
        log[i].octave = log[j].octave =>
            log[i].grid = log[j].grid /\ log[i].launched = log[j].launched
C9_InputsReadOnly == []C9_State /\ [][C9_Step]_vars
C9_Witness ==
    /\ Len(log) = 2
    /\ log[1].octave = log[2].octave
    /\ log[1].result = "true"
    /\ log[2].launched

(* C10: the group count is the table entry converted to unsigned 32 bits:  *)
(* over the int range the call returns false exactly for the entry 0, a    *)
(* non-negative entry launches that many groups, and a negative entry c    *)
(* launches 2^32 - |c| groups.                                             *)
C10_UnsignedConversion ==
    \A i \in Calls :
        LET c == ori_ct[log[i].octave]
            gx == log[i].grid.x
        IN /\ (log[i].result = "false") <=> (c = 0)
           /\ log[i].launched <=> (c # 0)
           /\ gx.hi \in 0 .. (LIMB - 1) /\ gx.lo \in 0 .. (LIMB - 1)
           /\ IF c >= 0 THEN gx.hi * LIMB + gx.lo = c
                        ELSE (gx.hi - LIMB) * LIMB + gx.lo = c
C10_Witness ==
    \E i \in Calls :
        /\ ori_ct[log[i].octave] = -1
        /\ log[i].launched
        /\ log[i].grid.x = [hi |-> 65535, lo |-> 65535]

====
